---- MODULE Spec2Model ----
(***************************************************************************)
(* State-machine model of torch.ao.quantization.fx._model_report           *)
(* ModelReport: construction, observer insertion, report generation,      *)
(* observer removal, report aggregation and qconfig-mapping generation.   *)
(***************************************************************************)
EXTENDS Integers, Sequences, FiniteSets, TLC

\* ---------------------------------------------------------------- bounds
\* detectors of an instance in the full life cycle (Spec)
MaxDetectors == 2
\* detectors of an instance when only construction and prepare run (SpecPrepare)
MaxPrepareDetectors == 3
\* stored reports when only the aggregation runs (SpecAggregate)
MaxReports == 3

\* ------------------------------------------------------- input universes
\* detector names matter only through which detectors share one, so they
\* are handed out in order of first occurrence
NameOrder == <<"d1", "d2", "d3", "d4">>

DetNames == {NameOrder[k] : k \in 1..Len(NameOrder)}
\* names a detector may give an observer; "m1" is also a module of the model
ObsNames == {"o1", "o2", "m1"}
\* the object identity of the GraphModule handed to the constructor
ModelRef == "gm"

NoneVal == [kind |-> "none"]

\* ------------------------------------------------------ sequence helpers
InsertAt(s, i, e) == SubSeq(s, 1, i - 1) \o <<e>> \o SubSeq(s, i, Len(s))

RemoveAt(s, i) == SubSeq(s, 1, i - 1) \o SubSeq(s, i + 1, Len(s))

SeqRange(s) == {s[i] : i \in 1..Len(s)}

\* sequences over S of length at most n
SeqsUpTo(S, n) == UNION {[1..k -> S] : k \in 0..n}

\* the detector sets of at most n detectors, each in an iteration order
DetectorSets(n) ==
    {s \in SeqsUpTo(DetNames, n) :
        \A i \in 1..Len(s) : \E k \in 1..Len(NameOrder) :
            /\ s[i] = NameOrder[k]
            /\ \A h \in 1..(k - 1) : \E j \in 1..(i - 1) : s[j] = NameOrder[h]}

\* ------------------------------------------------------------ the model
\* A traced GraphModule: the node list of its graph and its submodules.
\* users = the node's value is consumed by a node of the traced graph;
\* obs marks what an observer insertion created.
Node(id, target, op, users, obs) ==
    [id |-> id, target |-> target, op |-> op, users |-> users, obs |-> obs]

Module(name, obs) == [name |-> name, obs |-> obs]

\* x -> m1 -> output
LiveModel ==
    [nodes |-> << Node(1, "x", "placeholder", TRUE, FALSE),
                  Node(2, "m1", "call_module", TRUE, FALSE),
                  Node(3, "output", "output", FALSE, FALSE) >>,
     modules |-> {Module("m1", FALSE)}]

InitialModels == {LiveModel}

\* the node a detector names as the node to observe (m1)
TargetIds == {2}

NodeTargets(m) == {m.nodes[i].target : i \in 1..Len(m.nodes)}

ModuleNames(m) == {x.name : x \in m.modules}

\* number of graph nodes carrying this target
NodeCount(m, fqn) == Cardinality({i \in 1..Len(m.nodes) : m.nodes[i].target = fqn})

\* number of inserted call_module observer nodes carrying this target
ObsNodeCount(m, fqn) ==
    Cardinality({i \in 1..Len(m.nodes) :
        /\ m.nodes[i].target = fqn
        /\ m.nodes[i].op = "call_module"
        /\ m.nodes[i].obs})

ObsModuleCount(m, fqn) == Cardinality({x \in m.modules : x.name = fqn /\ x.obs})

IndexOfId(nodes, id) == CHOOSE i \in 1..Len(nodes) : nodes[i].id = id

FreshId(nodes) == 10 + Len(nodes)

\* ------------------------------------------------ detector return values
\* Detectors are collaborators from outside this class: each of their methods
\* is a call that returns, and what it returns is an input chosen per call.
\* determine_observer_insert_points: an insertion-ordered dict
\* fqn -> {target node, is-post-observer}; here a sequence with distinct fqns
Point(fqn, target, post) == [fqn |-> fqn, target |-> target, post |-> post]

AllPoints == {Point(f, t, p) : f \in ObsNames, t \in TargetIds, p \in BOOLEAN}

\* no point, any single point, or a pre and a post observer together
PointDicts ==
    {<<>>} \cup {<<p>> : p \in AllPoints}
           \cup {<<Point("o1", 2, FALSE), Point("o2", 2, TRUE)>>,
                 <<Point("o2", 2, FALSE), Point("o1", 2, TRUE)>>}

Keys(d) == {d[i].fqn : i \in 1..Len(d)}

DictUpdateAppend(acc, d) == acc \o d

\* dict.update on an insertion-ordered dict: an existing key keeps its place
\* and takes the new value, a new key is appended
RECURSIVE DictUpdate(_, _)
DictUpdate(acc, d) ==
    IF d = <<>> THEN acc
    ELSE LET e == Head(d)
             upd == IF e.fqn \in Keys(acc)
                    THEN [i \in 1..Len(acc) |->
                             IF acc[i].fqn = e.fqn THEN e ELSE acc[i]]
                    ELSE Append(acc, e)
         IN DictUpdate(upd, Tail(d))

\* ----------------------------------------------------- graph mutation
\* _insert_observer_around_module: add_submodule replaces a module of the
\* same name; the new call_module node goes before the target node, or
\* before the node after it for a post observer
InsertObserverAroundModule(m, p) ==
    LET idx == IndexOfId(m.nodes, p.target)
        pos == IF p.post THEN idx + 1 ELSE idx
        n == Node(FreshId(m.nodes), p.fqn, "call_module", FALSE, TRUE)
    IN [nodes |-> InsertAt(m.nodes, pos, n),
        modules |-> {x \in m.modules : x.name # p.fqn} \cup {Module(p.fqn, TRUE)}]

RECURSIVE InsertAll(_, _)
InsertAll(m, d) ==
    IF d = <<>> THEN m
    ELSE InsertAll(InsertObserverAroundModule(m, Head(d)), Tail(d))

\* _get_node_from_fqn: index of the first node with this target, 0 if none
GetNodeFromFqn(m, fqn) ==
    IF \E i \in 1..Len(m.nodes) : m.nodes[i].target = fqn
    THEN CHOOSE i \in 1..Len(m.nodes) :
            /\ m.nodes[i].target = fqn
            /\ \A j \in 1..(i - 1) : m.nodes[j].target # fqn
    ELSE 0

RemoveObserverKeepsModule(m, fqn) ==
    LET i == GetNodeFromFqn(m, fqn)
    IN IF i = 0 THEN [model |-> m, outcome |-> "ValueError"]
       ELSE IF m.nodes[i].users THEN [model |-> m, outcome |-> "RuntimeError"]
       ELSE [model |-> [m EXCEPT !.nodes = RemoveAt(m.nodes, i)], outcome |-> "ok"]

\* one pass of the removal loop: delete_submodule, _get_node_from_fqn,
\* erase_node (which refuses a node that still has users)
RemoveObserver(m, fqn) ==
    LET mods == {x \in m.modules : x.name # fqn}
        i == GetNodeFromFqn(m, fqn)
    IN IF i = 0
       THEN [model |-> [m EXCEPT !.modules = mods], outcome |-> "ValueError"]
       ELSE IF m.nodes[i].users
       THEN [model |-> [m EXCEPT !.modules = mods], outcome |-> "RuntimeError"]
       ELSE [model |-> [nodes |-> RemoveAt(m.nodes, i), modules |-> mods],
             outcome |-> "ok"]

RemoveAllFirstOnly(m, order) ==
    IF order = <<>> THEN [model |-> m, outcome |-> "ok"]
    ELSE RemoveObserver(m, Head(order))

\* the removal loop over all_observers_of_interest in one iteration order
RECURSIVE RemoveAll(_, _)
RemoveAll(m, order) ==
    IF order = <<>> THEN [model |-> m, outcome |-> "ok"]
    ELSE LET r == RemoveObserver(m, Head(order))
         IN IF r.outcome # "ok" THEN r ELSE RemoveAll(r.model, Tail(order))

\* the iteration orders of a set
Orders(S) ==
    {s \in [1..Cardinality(S) -> S] : \A i, j \in 1..Cardinality(S) : i # j => s[i] # s[j]}

\* ------------------------------------------------------ report values
\* a feature value: a plain Python number, a 1-D torch.Tensor or a
\* zero-dimensional torch.Tensor
Scalar(n) == [kind |-> "scalar", v |-> n]

Tensor(elems) == [kind |-> "tensor", elems |-> elems]

Tensor0d(n) == [kind |-> "tensor0d", v |-> n]

IsTensor(a) == a.kind \in {"tensor", "tensor0d"}

\* the elements that take part in broadcasting
Elems(a) == IF a.kind = "tensor0d" THEN <<a.v>> ELSE a.elems

FeatureValues ==
    {Scalar(0), Scalar(1), Tensor(<<0, 1>>), Tensor(<<1, 1>>), Tensor0d(1)}

ModuleFqns == {"m1"}

\* partial functions from a subset of D to R (Python dicts)
Dicts(D, R) == UNION {[K -> R] : K \in SUBSET D}

\* elementwise != of two 1-D tensors, a length-1 tensor broadcasting
TensorNe(x, y) ==
    IF Len(x) = Len(y) THEN [i \in 1..Len(x) |-> x[i] # y[i]]
    ELSE IF Len(x) = 1 THEN [i \in 1..Len(y) |-> x[1] # y[i]]
    ELSE [i \in 1..Len(x) |-> x[i] # y[1]]

Broadcastable(x, y) == Len(x) = Len(y) \/ Len(x) = 1 \/ Len(y) = 1

\* the comparison of one shared key in _is_same_info_for_same_key:
\* "same", "diff" (the function returns False), "raise" (RuntimeError) or
\* "typeerror" (TypeError)
KeyCmp(a, b) ==
    IF IsTensor(a)
    THEN IF ~IsTensor(b) THEN "diff"
         \* a != b of two zero-dimensional tensors is zero-dimensional, and
         \* the builtin sum cannot iterate over it
         ELSE IF a.kind = "tensor0d" /\ b.kind = "tensor0d" THEN "typeerror"
         ELSE IF ~Broadcastable(Elems(a), Elems(b)) THEN "raise"
         ELSE IF \E i \in DOMAIN TensorNe(Elems(a), Elems(b)) :
                     TensorNe(Elems(a), Elems(b))[i]
              THEN "diff" ELSE "same"
    ELSE IF IsTensor(b)
         \* number != tensor is an elementwise tensor; its truth value is
         \* defined only for a single element
         THEN IF Len(Elems(b)) # 1 THEN "raise"
              ELSE IF a.v # Elems(b)[1] THEN "diff" ELSE "same"
         ELSE IF a.v # b.v THEN "diff" ELSE "same"

\* _is_same_info_for_same_key: the outcomes it can have over the iteration
\* orders of the set of shared keys
IsSameInfoForSameKey(info_dict_a, info_dict_b) ==
    LET intersecting_keys == DOMAIN info_dict_a \cap DOMAIN info_dict_b
        cmp == {KeyCmp(info_dict_a[k], info_dict_b[k]) : k \in intersecting_keys}
    IN IF cmp \subseteq {"same"} THEN {"True"}
       ELSE {"False" : x \in cmp \cap {"diff"}}
            \cup {"RuntimeError" : x \in cmp \cap {"raise"}}
            \cup {"TypeError" : x \in cmp \cap {"typeerror"}}

\* {**new_info, **present_info}
MergeDicts(new_info, present_info) ==
    [k \in DOMAIN new_info \cup DOMAIN present_info |->
        IF k \in DOMAIN present_info THEN present_info[k] ELSE new_info[k]]

\* the accumulation of one module's features over the stored reports in
\* order, from report i on: at = the report at which the check fails (0 if
\* none), outs = what the failing check can do, acc = the merged features
RECURSIVE MergeModule(_, _, _, _)
MergeModule(reports, fqn, i, acc) ==
    IF i > Len(reports) THEN [at |-> 0, outs |-> {}, acc |-> acc]
    ELSE LET module_info == reports[i].report
         IN IF fqn \notin DOMAIN module_info
            THEN MergeModule(reports, fqn, i + 1, acc)
            ELSE IF acc = NoneVal
            THEN MergeModule(reports, fqn, i + 1, module_info[fqn])
            ELSE LET outs == IsSameInfoForSameKey(module_info[fqn], acc)
                 IN IF outs = {"True"}
                    THEN MergeModule(reports, fqn, i + 1,
                                     MergeDicts(module_info[fqn], acc))
                    ELSE [at |-> i, outs |-> outs \ {"True"}, acc |-> acc]

ReportedModules(reports) == UNION {DOMAIN reports[i].report : i \in 1..Len(reports)}

\* _reformat_reports_for_visualizer: the set of results it can have;
\* a result is an exception name or the features of the model's modules
ReformatReportsForVisualizer(reports, m) ==
    LET mods == ReportedModules(reports)
        res == [fqn \in mods |-> MergeModule(reports, fqn, 1, NoneVal)]
        failing == {fqn \in mods : res[fqn].at # 0}
    IN IF failing = {}
       THEN {[outcome |-> "ok",
              ret |-> [fqn \in mods \cap ModuleNames(m) |-> res[fqn].acc]]}
       ELSE LET first == CHOOSE t \in {res[fqn].at : fqn \in failing} :
                             \A fqn \in failing : t <= res[fqn].at
                outs == UNION {res[fqn].outs : fqn \in {g \in failing : res[g].at = first}}
            IN {[outcome |-> IF o = "False" THEN "ValueError" ELSE o,
                 ret |-> NoneVal] : o \in outs}

\* ------------------------------------------- detector return universes
\* generate_detector_report(model)[1]: module fqn -> feature dict.  In the
\* life cycle each detector reports one statistic of m1 under a key of its
\* own, with the value the calibration runs so far have led to; reports
\* that share keys are the subject of SpecAggregate.
OwnKey == <<"k1", "k2", "k3", "k4">>

CalibrationValues == {0, 1}

DetectorReport(i, v) == ("m1" :> (OwnKey[i] :> Scalar(v)))

\* the reports a set of detectors can have left in self._generated_reports:
\* any feature dicts over the shared keys, under distinct detector names
SharedKeys == {"k1", "k2"}

\* k1 holds any feature value, k2 a number
KeyValues ==
    ("k1" :> FeatureValues)
        @@ ("k2" :> {Scalar(0), Scalar(1)})

FeatureDicts ==
    {d \in Dicts(SharedKeys, FeatureValues) : \A k \in DOMAIN d : d[k] \in KeyValues[k]}

SharedReports == Dicts(ModuleFqns, FeatureDicts)

\* the stored reports of detectors d1..dk with these report dicts
StoredReports(r) == [i \in 1..Len(r) |-> [name |-> NameOrder[i], report |-> r[i]]]

\* a DetectorQConfigInfo
QInfo(dyn, perch, eq) ==
    [is_activation_dynamic |-> dyn, is_weight_per_channel |-> perch,
     is_equalization_recommended |-> eq]

\* get_qconfig_info(model): module fqn -> DetectorQConfigInfo
QInfoChoices ==
    {("m1" :> QInfo(FALSE, FALSE, FALSE)), ("m1" :> QInfo(TRUE, FALSE, TRUE))}

\* ----------------------------------------------------------------- state
VARIABLES
    pc,                             \* "start", "live", or "failed" (constructor raised)
    detectors,                      \* the detector set in its iteration order, by name
    model,                          \* the GraphModule (mutated in place)
    self_model,                     \* self._model: which object the instance holds
    desired_detector_names,         \* self._desired_detector_names
    detector_name_to_observer_fqns, \* self._detector_name_to_observer_fqns
    prepared_flag,                  \* self._prepared_flag
    removed_observers,              \* self._removed_observers
    generated_reports,              \* self._generated_reports, insertion-ordered
    returned,                       \* what each detector returned to prepare
    prepare_count,                  \* prepare calls that returned
    removal_count,                  \* times the removal loop was entered
    model0,                         \* the model as handed to the constructor
    last,                           \* the last call: op, argument, outcome, result
    milestones,                     \* which generate_model_report calls have returned
    view                            \* the value a getter last handed to the caller

vars == <<pc, detectors, model, self_model, desired_detector_names,
          detector_name_to_observer_fqns, prepared_flag, removed_observers,
          generated_reports, returned, prepare_count, removal_count, model0, last,
          milestones, view>>

CountCap == 2

\* how many changes the caller makes to a value a getter returned
MaxViewEdits == 1

\* the largest detector set of the instances whose getters are called
MaxViewDetectors == 1

Bump(c) == IF c < CountCap THEN c + 1 ELSE c

\* the record of a call; streak = how many successful
\* generate_model_report(False) calls in a row end with this one
CallRec(op, remove, outcome, ret, calls, streak) ==
    [op |-> op, remove |-> remove, outcome |-> outcome, ret |-> ret,
     calls |-> calls, streak |-> streak]

Call(op, remove, outcome, ret, calls) == CallRec(op, remove, outcome, ret, calls, 0)

DetectorIds == 1..Len(detectors)

InitWith(n) ==
    /\ pc = "start"
    /\ detectors \in DetectorSets(n)
    /\ model \in InitialModels
    /\ model0 = model
    /\ self_model = NoneVal
    /\ desired_detector_names = {}
    /\ detector_name_to_observer_fqns = <<>>
    /\ prepared_flag = FALSE
    /\ removed_observers = FALSE
    /\ generated_reports = <<>>
    /\ returned = <<>>
    /\ prepare_count = 0
    /\ removal_count = 0
    /\ last = Call("none", FALSE, "ok", NoneVal, {})
    /\ milestones = {}
    /\ view = NoneVal

ConstructRejectsNegative == Len(detectors) < 0

\* __init__: the check for an empty detector set
ConstructRejects == Len(detectors) = 0

Init == InitWith(MaxDetectors)

InitPrepare == InitWith(MaxPrepareDetectors)

InitViews == InitWith(MaxViewDetectors)

\* ModelReport.__init__
Construct ==
    /\ pc = "start"
    /\ IF ConstructRejects
       THEN /\ pc' = "failed"
            /\ last' = Call("init", FALSE, "ValueError", NoneVal, {})
            /\ UNCHANGED <<self_model, desired_detector_names,
                           detector_name_to_observer_fqns>>
       ELSE /\ pc' = "live"
            /\ self_model' = [kind |-> "ref", ref |-> ModelRef]
            /\ desired_detector_names' = SeqRange(detectors)
            /\ detector_name_to_observer_fqns' =
                   [n \in SeqRange(detectors) |-> {}]
            /\ last' = Call("init", FALSE, "ok", NoneVal, {})
    /\ UNCHANGED <<detectors, model, prepared_flag, removed_observers,
                   generated_reports, returned, prepare_count, removal_count,
                   model0, milestones, view>>

\* the insert_observers_fqns dict built by the first loop of
\* prepare_detailed_calibration from the detectors' answers, in order
RECURSIVE CollectInsertPoints(_, _, _)
CollectInsertPoints(rets, i, acc) ==
    IF i > Len(rets) THEN acc
    ELSE CollectInsertPoints(rets, i + 1, DictUpdate(acc, rets[i]))

RecordedFqnsOfAll(dets, rets, name) == UNION {Keys(rets[i]) : i \in 1..Len(rets)}

\* the observer set recorded under a name: each detector assigns the key
\* set of its own answer, so the last detector of that name decides
RecordedFqns(dets, rets, name) ==
    LET last_i == CHOOSE i \in 1..Len(dets) :
                      /\ dets[i] = name
                      /\ \A j \in (i + 1)..Len(dets) : dets[j] # name
    IN Keys(rets[last_i])

PrepareBlockedWrongFlag == removed_observers

\* prepare_detailed_calibration: "if already prepared once, cannot prepare again"
PrepareBlocked == prepared_flag

\* ModelReport.prepare_detailed_calibration
PrepareDetailedCalibration ==
    /\ pc = "live"
    /\ IF PrepareBlocked
       THEN /\ last' = Call("prepare", FALSE, "ValueError", NoneVal, {})
            /\ UNCHANGED <<model, detector_name_to_observer_fqns, prepared_flag,
                           returned, prepare_count>>
       ELSE \E rets \in [DetectorIds -> PointDicts] :
            LET insert_observers_fqns == CollectInsertPoints(rets, 1, <<>>)
            IN /\ detector_name_to_observer_fqns' =
                      [n \in DOMAIN detector_name_to_observer_fqns |->
                          IF n \in SeqRange(detectors)
                          THEN RecordedFqns(detectors, rets, n)
                          ELSE detector_name_to_observer_fqns[n]]
               /\ model' = InsertAll(model, insert_observers_fqns)
               /\ prepared_flag' = TRUE
               /\ returned' = rets
               /\ prepare_count' = Bump(prepare_count)
               /\ last' = Call("prepare", FALSE, "ok", self_model,
                               {<<"determine_observer_insert_points", i>> :
                                   i \in DetectorIds})
    /\ UNCHANGED <<pc, detectors, self_model, desired_detector_names,
                   removed_observers, generated_reports, removal_count, model0,
                   milestones, view>>

CollectReportsOnlyFirst(dets, reps, i, acc) ==
    <<[name |-> dets[1], report |-> reps[1]]>>

\* reports_of_interest: an insertion-ordered dict name -> report; a name
\* seen again keeps its place and takes the later report
RECURSIVE CollectReports(_, _, _, _)
CollectReports(dets, reps, i, acc) ==
    IF i > Len(dets) THEN acc
    ELSE LET e == [name |-> dets[i], report |-> reps[i]]
             upd == IF \E j \in 1..Len(acc) : acc[j].name = e.name
                    THEN [j \in 1..Len(acc) |->
                             IF acc[j].name = e.name THEN e ELSE acc[j]]
                    ELSE Append(acc, e)
         IN CollectReports(dets, reps, i + 1, upd)

AllObserversOfInterest ==
    UNION {detector_name_to_observer_fqns[n] :
               n \in DOMAIN detector_name_to_observer_fqns}

ReportBlockedOnlyRemoved == removed_observers

ReportBlockedOnlyUnprepared == ~prepared_flag

ReportBlockedAfterFirst ==
    ~prepared_flag \/ removed_observers \/ generated_reports # <<>>

\* generate_model_report: the two checks that raise before any report is made
ReportBlocked == ~prepared_flag \/ removed_observers

\* ModelReport.generate_model_report
GenerateModelReport(remove_inserted_observers) ==
    /\ pc = "live"
    /\ IF ReportBlocked
       THEN /\ last' = Call("report", remove_inserted_observers, "Exception",
                            NoneVal, {})
            /\ UNCHANGED <<model, removed_observers, generated_reports,
                           removal_count, milestones>>
       ELSE \E v \in CalibrationValues :
            LET reps == [i \in DetectorIds |-> DetectorReport(i, v)]
                reports_of_interest == CollectReports(detectors, reps, 1, <<>>)
                calls == {<<"generate_detector_report", i>> : i \in DetectorIds}
            IN IF remove_inserted_observers
               THEN \E order \in Orders(AllObserversOfInterest) :
                    LET r == RemoveAll(model, order)
                    IN /\ removed_observers' = TRUE
                       /\ removal_count' = Bump(removal_count)
                       /\ model' = r.model
                       /\ IF r.outcome = "ok"
                          THEN /\ generated_reports' = reports_of_interest
                               /\ milestones' = milestones \cup {"removed"}
                               /\ last' = Call("report", TRUE, "ok",
                                               [kind |-> "reports",
                                                val |-> reports_of_interest],
                                               calls)
                          ELSE /\ UNCHANGED <<generated_reports, milestones>>
                               /\ last' = Call("report", TRUE, r.outcome,
                                               NoneVal, calls)
               ELSE /\ generated_reports' = reports_of_interest
                    /\ milestones' = milestones \cup {"kept"}
                    /\ last' = CallRec("report", FALSE, "ok",
                                       [kind |-> "reports",
                                        val |-> reports_of_interest], calls,
                                       Bump(last.streak))
                    /\ UNCHANGED <<model, removed_observers, removal_count>>
    /\ UNCHANGED <<pc, detectors, self_model, desired_detector_names,
                   detector_name_to_observer_fqns, prepared_flag, returned,
                   prepare_count, model0, view>>

\* ModelReport.generate_visualizer
GenerateVisualizer ==
    /\ pc = "live"
    /\ IF Len(generated_reports) = 0
       THEN last' = Call("visualizer", FALSE, "Exception", NoneVal, {})
       ELSE \E r \in ReformatReportsForVisualizer(generated_reports, model) :
            last' = Call("visualizer", FALSE, r.outcome,
                         IF r.outcome = "ok"
                         THEN [kind |-> "visualizer", val |-> r.ret]
                         ELSE NoneVal, {})
    /\ UNCHANGED <<pc, detectors, model, self_model, desired_detector_names,
                   detector_name_to_observer_fqns, prepared_flag,
                   removed_observers, generated_reports, returned,
                   prepare_count, removal_count, model0, milestones, view>>

\* _update_detector_quantizaiton_qconfig_info
UpdateDetectorQuantizationQconfigInfo(combined_info, new_info) ==
    [combined_info EXCEPT
        !.is_activation_dynamic =
            combined_info.is_activation_dynamic \/ new_info.is_activation_dynamic,
        !.is_weight_per_channel =
            combined_info.is_weight_per_channel \/ new_info.is_weight_per_channel]

\* _update_detector_equalization_qconfig_info
UpdateDetectorEqualizationQconfigInfo(combined_info, new_info) ==
    [combined_info EXCEPT
        !.is_equalization_recommended =
            combined_info.is_equalization_recommended
                \/ new_info.is_equalization_recommended]

UpdateQconfigInfo(kind, combined_info, new_info) ==
    IF kind = "qconfig"
    THEN UpdateDetectorQuantizationQconfigInfo(combined_info, new_info)
    ELSE UpdateDetectorEqualizationQconfigInfo(combined_info, new_info)

\* the detector loop of _generate_module_fqn_to_detector_info_mapping
RECURSIVE CombineQconfigInfo(_, _, _, _)
CombineQconfigInfo(kind, infos, i, acc) ==
    IF i > Len(infos) THEN acc
    ELSE LET detector_info == infos[i]
             upd == [fqn \in DOMAIN acc \cup DOMAIN detector_info |->
                        IF fqn \notin DOMAIN detector_info THEN acc[fqn]
                        ELSE IF fqn \in DOMAIN acc
                        THEN UpdateQconfigInfo(kind, acc[fqn], detector_info[fqn])
                        ELSE detector_info[fqn]]
         IN CombineQconfigInfo(kind, infos, i + 1, upd)

\* _generate_qconfig_mapping_helper: one entry per module of the model that
\* has combined info; the entry is what the generation function reads
GenerateQconfigMappingHelper(kind, combined, m) ==
    [fqn \in DOMAIN combined \cap ModuleNames(m) |->
        IF kind = "qconfig"
        THEN <<combined[fqn].is_activation_dynamic, combined[fqn].is_weight_per_channel>>
        ELSE <<combined[fqn].is_equalization_recommended>>]

MappingBlockedOnlyUnprepared == ~prepared_flag

\* _generate_module_fqn_to_detector_info_mapping: the two checks that raise
MappingBlocked == ~prepared_flag \/ removed_observers

\* ModelReport.generate_qconfig_mapping ("qconfig") and
\* ModelReport.generate_equalization_mapping ("equalization")
GenerateMapping(kind) ==
    /\ pc = "live"
    /\ IF MappingBlocked
       THEN last' = Call(kind, FALSE, "Exception", NoneVal, {})
       ELSE \E infos \in [DetectorIds -> QInfoChoices] :
            LET combined == CombineQconfigInfo(kind, infos, 1, <<>>)
            IN last' = Call(kind, FALSE, "ok",
                            [kind |-> "mapping",
                             val |-> GenerateQconfigMappingHelper(kind, combined, model)],
                            {<<"get_qconfig_info", i>> : i \in DetectorIds})
    /\ UNCHANGED <<pc, detectors, model, self_model, desired_detector_names,
                   detector_name_to_observer_fqns, prepared_flag,
                   removed_observers, generated_reports, returned,
                   prepare_count, removal_count, model0, milestones, view>>

GenerateQconfigMapping == GenerateMapping("qconfig")

GenerateEqualizationMapping == GenerateMapping("equalization")

GenerateReportKeepObservers == GenerateModelReport(FALSE)

GenerateReportRemoveObservers == GenerateModelReport(TRUE)

\* what the getters leave alone
GetterFrame ==
    UNCHANGED <<pc, detectors, model, self_model, desired_detector_names,
                detector_name_to_observer_fqns, prepared_flag,
                removed_observers, generated_reports, returned,
                prepare_count, removal_count, model0, milestones>>

\* ModelReport.get_desired_reports_names: a new set with the same names
GetDesiredReportsNames ==
    /\ pc = "live"
    /\ view' = [kind |-> "names", val |-> desired_detector_names,
                gen |-> prepare_count, edits |-> 0]
    /\ last' = Call("names", FALSE, "ok",
                    [kind |-> "names", val |-> desired_detector_names], {})
    /\ GetterFrame

\* ModelReport.get_observers_of_interest: dict.copy() makes a new dict whose
\* values are the instance's own set objects; gen tells which set objects
\* (those of __init__ or those assigned by prepare) the values are
GetObserversOfInterest ==
    /\ pc = "live"
    /\ view' = [kind |-> "observers", val |-> detector_name_to_observer_fqns,
                gen |-> prepare_count, edits |-> 0]
    /\ last' = Call("observers", FALSE, "ok",
                    [kind |-> "observers",
                     val |-> detector_name_to_observer_fqns], {})
    /\ GetterFrame

EditSet(S, x, add) == IF add THEN S \cup {x} ELSE S \ {x}

\* the caller adds a name to, or removes one from, the set that
\* get_desired_reports_names returned
CallerEditsNames ==
    /\ view.kind = "names"
    /\ view.edits < MaxViewEdits
    /\ \E n \in DetNames, add \in BOOLEAN :
          view' = [view EXCEPT !.val = EditSet(@, n, add), !.edits = @ + 1]
    /\ UNCHANGED last
    /\ GetterFrame

\* whether the sets inside the returned mapping are the instance's own:
\* they are, until prepare_detailed_calibration assigns new sets
SetsAreShared == view.gen = prepare_count

\* the caller adds an observer name to, or removes one from, a per-detector
\* set inside the mapping that get_observers_of_interest returned
CallerEditsObserverSet ==
    /\ view.kind = "observers"
    /\ view.edits < MaxViewEdits
    /\ \E n \in DOMAIN view.val, f \in ObsNames, add \in BOOLEAN :
          /\ view' = [view EXCEPT !.val[n] = EditSet(@, f, add),
                                  !.edits = @ + 1]
          /\ detector_name_to_observer_fqns' =
                 IF SetsAreShared
                 THEN [detector_name_to_observer_fqns EXCEPT
                          ![n] = EditSet(@, f, add)]
                 ELSE detector_name_to_observer_fqns
    /\ UNCHANGED <<pc, detectors, model, self_model, desired_detector_names,
                   prepared_flag, removed_observers, generated_reports,
                   returned, prepare_count, removal_count, model0, milestones,
                   last>>

Next ==
    \/ Construct
    \/ PrepareDetailedCalibration
    \/ GenerateReportKeepObservers
    \/ GenerateReportRemoveObservers
    \/ GenerateVisualizer
    \/ GenerateQconfigMapping
    \/ GenerateEqualizationMapping

Spec == Init /\ [][Next]_vars

\* an instance whose last generate_model_report(False) stored these reports
\* (its detectors asked for no observer)
InitAggregate ==
    /\ \E k \in 1..MaxReports : \E r \in [1..k -> SharedReports] :
          /\ generated_reports = StoredReports(r)
          /\ detectors = [i \in 1..k |-> NameOrder[i]]
    /\ pc = "live"
    /\ model = LiveModel
    /\ model0 = model
    /\ self_model = [kind |-> "ref", ref |-> ModelRef]
    /\ desired_detector_names = SeqRange(detectors)
    /\ detector_name_to_observer_fqns = [n \in SeqRange(detectors) |-> {}]
    /\ prepared_flag = TRUE
    /\ removed_observers = FALSE
    /\ returned = [i \in 1..Len(detectors) |-> <<>>]
    /\ prepare_count = 1
    /\ removal_count = 0
    /\ last = CallRec("report", FALSE, "ok",
                      [kind |-> "reports", val |-> generated_reports],
                      {<<"generate_detector_report", i>> : i \in 1..Len(detectors)}, 1)
    /\ milestones = {"kept"}
    /\ view = NoneVal

\* the aggregation of stored reports alone
NextAggregate == GenerateVisualizer

SpecAggregate == InitAggregate /\ [][NextAggregate]_vars

\* construction and prepare alone, for larger detector sets
NextPrepare ==
    \/ Construct
    \/ PrepareDetailedCalibration

SpecPrepare == InitPrepare /\ [][NextPrepare]_vars

\* the getters, a caller that changes what they returned, and the removal
NextViews ==
    \/ Construct
    \/ PrepareDetailedCalibration
    \/ GetDesiredReportsNames
    \/ GetObserversOfInterest
    \/ CallerEditsNames
    \/ CallerEditsObserverSet
    \/ GenerateReportRemoveObservers

SpecViews == InitViews /\ [][NextViews]_vars

\* ---------------------------------------------------------------- claims
\* a step that is a call of prepare_detailed_calibration
PrepareStep == last'.op = "prepare" /\ vars' # vars

\* a step that is a call of generate_model_report
ReportStep == last'.op = "report" /\ vars' # vars

DistinctNames == \A i, j \in DetectorIds : i # j => detectors[i] # detectors[j]

\* C1: prepare_detailed_calibration succeeds at most once on an instance:
\* a call made after a prepare that returned raises ValueError and leaves
\* the model (graph nodes and submodules) as it was.
C1_PrepareAtMostOnce ==
    [][(PrepareStep /\ prepare_count >= 1) =>
          /\ last'.outcome = "ValueError"
          /\ model' = model
          /\ prepare_count' = prepare_count]_vars

C1_Witness ==
    /\ last.op = "prepare"
    /\ last.outcome = "ValueError"
    /\ prepare_count = 1
    /\ Len(model.nodes) > Len(model0.nodes)

\* C2: generate_model_report, with either argument, raises while no prepare
\* has returned; no generate_detector_report is called and no report is stored.
C2_ReportNeedsPrepare ==
    (last.op = "report" /\ prepare_count = 0) =>
        /\ last.outcome = "Exception"
        /\ last.calls = {}
        /\ generated_reports = <<>>

C2_Witness ==
    /\ last.op = "report"
    /\ last.remove
    /\ last.outcome = "Exception"
    /\ prepare_count = 0
    /\ pc = "live"

\* C3: once generate_model_report(True) has run on a prepared instance, every
\* later generate_model_report call raises and touches neither the model nor
\* the removal count, so observers are removed at most once.
C3_NoReportAfterRemoval ==
    [][(ReportStep /\ removal_count >= 1) =>
          /\ last'.outcome = "Exception"
          /\ model' = model
          /\ removal_count' = removal_count]_vars

C3_Witness ==
    /\ last.op = "report"
    /\ ~last.remove
    /\ last.outcome = "Exception"
    /\ removal_count = 1

\* C4: constructing with no detector raises ValueError; constructing with at
\* least one yields an instance that is not prepared, has removed nothing,
\* stores no report and records an empty observer set for every detector name.
C4_Construction ==
    last.op = "init" =>
        IF Len(detectors) = 0
        THEN last.outcome = "ValueError" /\ pc = "failed"
        ELSE /\ last.outcome = "ok"
             /\ pc = "live"
             /\ ~prepared_flag
             /\ ~removed_observers
             /\ generated_reports = <<>>
             /\ desired_detector_names = SeqRange(detectors)
             /\ DOMAIN detector_name_to_observer_fqns = SeqRange(detectors)
             /\ \A n \in SeqRange(detectors) : detector_name_to_observer_fqns[n] = {}

C4_Witness ==
    /\ last.op = "init"
    /\ last.outcome = "ValueError"
    /\ detectors = <<>>

\* two stored reports give one module a shared feature key with unequal values
Conflict(reports) ==
    \E i, j \in 1..Len(reports) :
        /\ i # j
        /\ \E fqn \in DOMAIN reports[i].report \cap DOMAIN reports[j].report :
             \E k \in DOMAIN reports[i].report[fqn] \cap DOMAIN reports[j].report[fqn] :
                reports[i].report[fqn][k] # reports[j].report[fqn][k]

\* C5: when the stored reports of two detectors give one module a shared
\* feature key with unequal values, generate_visualizer fails with
\* ValueError and produces no merged mapping and no visualizer.
C5_ConflictRaisesValueError ==
    (last.op = "visualizer" /\ Conflict(generated_reports)) =>
        /\ last.outcome = "ValueError"
        /\ last.ret = NoneVal

\* C6: on a prepared instance that never ran the observer removal, every
\* generate_model_report(False) call succeeds, however many were made before.
C6_RepeatedReports ==
    (/\ last.op = "report"
     /\ ~last.remove
     /\ prepare_count >= 1
     /\ removal_count = 0) => last.outcome = "ok"

C6_Witness ==
    /\ last.op = "report"
    /\ ~last.remove
    /\ last.outcome = "ok"
    /\ last.streak >= 2
    /\ removal_count = 0

\* every observer name a detector asked prepare to insert
AllRequested == UNION {Keys(returned[i]) : i \in 1..Len(returned)}

\* no requested observer name is the target of a node or the name of a
\* submodule the model had before prepare
NoNameClash ==
    AllRequested \cap (NodeTargets(model0) \cup ModuleNames(model0)) = {}

RemovalReturned == last.op = "report" /\ last.remove /\ last.outcome = "ok"

NoneOfRecordedLeft ==
    \A f \in AllObserversOfInterest :
        f \notin ModuleNames(model) /\ f \notin NodeTargets(model)

\* C7 as stated: with pairwise distinct detector names, after
\* generate_model_report(True) returns, no recorded observer name is the
\* name of a submodule or the target of a graph node of the model.
C7_NoObserverNameLeft == (RemovalReturned /\ DistinctNames) => NoneOfRecordedLeft

\* C7 amended: the same, provided no requested observer name is the target
\* of a node or the name of a submodule the model already had.
C7_NoObserverLeftWithoutClash ==
    (RemovalReturned /\ DistinctNames /\ NoNameClash) => NoneOfRecordedLeft

C7_Witness ==
    /\ RemovalReturned
    /\ DistinctNames
    /\ NoNameClash
    /\ Cardinality(AllObserversOfInterest) >= 2

PrepareReturned == last.op = "prepare" /\ last.outcome = "ok"

\* C8: after a successful prepare with pairwise distinct detector names, the
\* set recorded under each detector's name is the key set that detector
\* returned, every requested name has exactly one inserted call_module node
\* and one observer submodule, and the result is the constructor's model.
C8_PrepareRecordsAndInserts ==
    (PrepareReturned /\ DistinctNames) =>
        /\ \A i \in DetectorIds :
              detector_name_to_observer_fqns[detectors[i]] = Keys(returned[i])
        /\ \A f \in AllRequested :
              /\ ObsNodeCount(model, f) = 1
              /\ NodeCount(model, f) = NodeCount(model0, f) + 1
              /\ ObsModuleCount(model, f) = 1
        /\ last.ret = [kind |-> "ref", ref |-> ModelRef]

C8_Witness ==
    /\ PrepareReturned
    /\ DistinctNames
    /\ Len(detectors) >= 2
    /\ \E i, j \in DetectorIds : Keys(returned[i]) # {} /\ Keys(returned[j]) # {}
                                  /\ Keys(returned[i]) # Keys(returned[j])

\* the detectors that asked for this observer name
Requesters(f) == {i \in 1..Len(returned) : f \in Keys(returned[i])}

SharedNameInsertedOnce ==
    \A f \in AllRequested :
        Cardinality(Requesters(f)) >= 2 =>
            /\ NodeCount(model, f) = NodeCount(model0, f) + 1
            /\ ObsNodeCount(model, f) = 1
            /\ ObsModuleCount(model, f) = 1
            /\ \A i \in Requesters(f) :
                  f \in detector_name_to_observer_fqns[detectors[i]]

\* C9 as stated: a name requested by several detectors is inserted once:
\* prepare adds exactly one node and one submodule for it, and each
\* requesting detector has the name in the set recorded under its name.
C9_SharedNameInsertedOnce == PrepareReturned => SharedNameInsertedOnce

\* C9 amended: the same for detectors with pairwise distinct names.
C9_SharedNameInsertedOnceDistinct ==
    (PrepareReturned /\ DistinctNames) => SharedNameInsertedOnce

C9_Witness ==
    /\ PrepareReturned
    /\ DistinctNames
    /\ \E f \in AllRequested : Cardinality(Requesters(f)) >= 2

C11_MappingNeedsReports ==
    (last.op \in {"qconfig", "equalization"} /\ milestones = {})
        => last.outcome # "ok"

\* C12: after prepare_detailed_calibration and a generate_model_report(True)
\* that returned, generate_qconfig_mapping, generate_equalization_mapping
\* and generate_visualizer each succeed
C12_DocumentedFlowSucceeds ==
    (last.op \in {"qconfig", "equalization", "visualizer"}
        /\ "removed" \in milestones)
        => last.outcome = "ok"

\* C13: generate_visualizer raises if generate_model_report has never
\* succeeded on the instance; once it has succeeded and the stored reports
\* have no conflicting shared keys, generate_visualizer succeeds, also
\* after the observers have been removed
C13_VisualizerAfterReports ==
    last.op = "visualizer" =>
        /\ milestones = {} => last.outcome = "Exception"
        /\ (milestones # {} /\ ~Conflict(generated_reports))
               => last.outcome = "ok"

ReportReturned == last.op = "report" /\ last.outcome = "ok"

\* the keys of the returned mapping are the desired detector names, each once
ReturnedKeysAreDesiredNames ==
    LET val == last.ret.val
    IN /\ {val[j].name : j \in 1..Len(val)} = desired_detector_names
       /\ \A j, h \in 1..Len(val) : val[j].name = val[h].name => j = h

\* every detector's own report is the entry under its name
EveryDetectorHasItsEntry ==
    LET val == last.ret.val
    IN \E v \in CalibrationValues : \A i \in DetectorIds :
           \E j \in 1..Len(val) :
               /\ val[j].name = detectors[i]
               /\ val[j].report = DetectorReport(i, v)

\* C14 as stated: a successful generate_model_report returns a mapping whose
\* key set is the set of desired detector names, with one entry per
\* detector, produced by that detector's generate_detector_report.
C14_ReportPerDetector ==
    ReportReturned => (ReturnedKeysAreDesiredNames /\ EveryDetectorHasItsEntry)

\* C14: the same for detectors with pairwise distinct names; in any case the
\* key set is the set of desired detector names.
C14_ReportPerDistinctDetector ==
    ReportReturned =>
        /\ ReturnedKeysAreDesiredNames
        /\ DistinctNames => EveryDetectorHasItsEntry

C14_Witness ==
    /\ ReportReturned
    /\ DistinctNames
    /\ Len(detectors) = 2
    /\ Len(last.ret.val) = 2
    /\ last.ret.val[2].report = DetectorReport(2, 1)

CallerEdit == view.kind # "none" /\ view'.kind = view.kind /\ view'.edits = view.edits + 1

\* C15: no modification a caller makes to a value returned by
\* get_desired_reports_names or get_observers_of_interest, a per-detector
\* observer set inside the returned mapping included, changes the instance's
\* desired names or recorded observers (what later calls return and what
\* generate_model_report(True) removes)
C15_GettersReturnCopies ==
    [][CallerEdit => UNCHANGED <<desired_detector_names,
                                 detector_name_to_observer_fqns>>]_vars

\* the removal loop of generate_model_report(True) was entered
RemovalTried ==
    last.op = "report" /\ last.remove /\ last.outcome # "Exception"

\* C17: with pairwise distinct detector names and no requested observer name
\* equal to a node target or submodule name of the model, prepare followed
\* by any number of generate_model_report(False) calls and then
\* generate_model_report(True) returns and leaves the model with the
\* sequence of graph nodes and the set of submodules it had before prepare.
C17_RoundTrip ==
    (RemovalTried /\ DistinctNames /\ NoNameClash) =>
        /\ last.outcome = "ok"
        /\ model.nodes = model0.nodes
        /\ model.modules = model0.modules

C17_Witness ==
    /\ RemovalReturned
    /\ DistinctNames
    /\ NoNameClash
    /\ "kept" \in milestones
    /\ Len(detectors) = 2
    /\ AllObserversOfInterest = {"o1", "o2"}
    /\ model = model0

\* the union of a module's feature dictionaries over the stored reports
UnionOfReports(reports) ==
    [fqn \in ReportedModules(reports) |->
        LET having == {i \in 1..Len(reports) : fqn \in DOMAIN reports[i].report}
            keys == UNION {DOMAIN reports[i].report[fqn] : i \in having}
        IN [k \in keys |->
               LET i == CHOOSE i \in having : k \in DOMAIN reports[i].report[fqn]
               IN reports[i].report[fqn][k]]]

\* C18: when the stored reports agree on every feature key they share for a
\* module, aggregation succeeds and each module's merged dictionary is the
\* union of its feature dictionaries over the reports, each key with the
\* agreed value; with three or more detectors aggregation fails if and only
\* if some pair of reports disagrees on a shared key of a common module.
C18_AggregationIsUnion ==
    last.op = "visualizer" =>
        /\ ~Conflict(generated_reports) =>
               /\ last.outcome = "ok"
               /\ last.ret.val = UnionOfReports(generated_reports)
        /\ Len(generated_reports) >= 3 =>
               (last.outcome # "ok" <=> Conflict(generated_reports))

====
